---- MODULE Spec2Model ----
(***************************************************************************)
(* Model of fake_useragent: construction of a FakeUserAgent (argument      *)
(* validation, OS token expansion, catalog load) and the lookups made on   *)
(* it (getBrowser, __getattr__, __getitem__ and the accessor properties).  *)
(*                                                                         *)
(* Python strings are sequences of one-character strings so that replace,  *)
(* lower and dictionary lookup are computed character by character.        *)
(* Floats are the integers they denote (122.0 is 122).                     *)
(***************************************************************************)
EXTENDS Integers, Sequences, FiniteSets, TLC

\* Longest catalog resource (number of lines) that Init draws.
MaxLines == 3
\* Largest number of lookups made on one selector.
MaxCalls == 2
\* Largest number of keyword arguments a constructor call overrides.
MaxOverrides == 2
\* Number of threads that make lookups on one selector at the same time.
NThreads == 2
\* Number of nested Python frames at which the interpreter raises
\* RecursionError.
RecursionLimit == 12

(***************************************************************************)
(* String literals                                                         *)
(***************************************************************************)
CHROME == <<"c","h","r","o","m","e">>
FIREFOX == <<"f","i","r","e","f","o","x">>
SAFARI == <<"s","a","f","a","r","i">>
EDGE == <<"e","d","g","e">>
OPERA == <<"o","p","e","r","a">>
RANDOM == <<"r","a","n","d","o","m">>
GOOGLE == <<"g","o","o","g","l","e">>
GOOGLECHROME == <<"g","o","o","g","l","e","c","h","r","o","m","e">>
FF == <<"f","f">>
MICROSOFT_EDGE == <<"m","i","c","r","o","s","o","f","t"," ","e","d","g","e">>
MICROSOFTEDGE == <<"m","i","c","r","o","s","o","f","t","e","d","g","e">>
NETSCAPE == <<"n","e","t","s","c","a","p","e">>
WINDOWS == <<"w","i","n","d","o","w","s">>
WIN10 == <<"w","i","n","1","0">>
WIN7 == <<"w","i","n","7">>
MACOS == <<"m","a","c","o","s">>
LINUX == <<"l","i","n","u","x">>
PC == <<"p","c">>
MOBILE == <<"m","o","b","i","l","e">>
TABLET == <<"t","a","b","l","e","t">>
OK == <<"o","k">>

(***************************************************************************)
(* Python values handed to the constructor                                 *)
(***************************************************************************)
PyNone == [t |-> "none", s |-> <<>>, n |-> 0, l |-> <<>>]
PyStr(s) == [t |-> "str", s |-> s, n |-> 0, l |-> <<>>]
PyNum(n) == [t |-> "num", s |-> <<>>, n |-> n, l |-> <<>>]
PyList(l) == [t |-> "list", s |-> <<>>, n |-> 0, l |-> l]

NoError == [type |-> "none", param |-> "", indices |-> <<>>]
Raise(type, param) == [type |-> type, param |-> param, indices |-> <<>>]

(***************************************************************************)
(* settings.py                                                             *)
(***************************************************************************)
REPLACEMENTS ==
    << [value |-> " ", replacement |-> <<>>],
       [value |-> "_", replacement |-> <<>>] >>

\* OS_REPLACEMENTS with "windows" standing for "win10" alone
OS_REPLACEMENTS_Win10Only ==
    { [key |-> WINDOWS, value |-> <<WIN10>>] }

OS_REPLACEMENTS ==
    { [key |-> WINDOWS, value |-> <<WIN10, WIN7>>] }

SHORTCUTS ==
    { [key |-> MICROSOFT_EDGE, value |-> EDGE],
      [key |-> GOOGLE, value |-> CHROME],
      [key |-> GOOGLECHROME, value |-> CHROME],
      [key |-> FF, value |-> FIREFOX] }

\* dict.get(key, default) on a table of [key, value] entries
DictGet(table, k, default) ==
    IF \E e \in table : e.key = k
    THEN (CHOOSE e \in table : e.key = k).value
    ELSE default

(***************************************************************************)
(* str.replace (one-character pattern), str.lower                          *)
(***************************************************************************)
RECURSIVE StrReplace(_, _, _)
StrReplace(s, value, replacement) ==
    IF s = <<>> THEN <<>>
    ELSE (IF Head(s) = value THEN replacement ELSE <<Head(s)>>)
         \o StrReplace(Tail(s), value, replacement)

UpperChars ==
    <<"A","B","C","D","E","F","G","H","I","J","K","L","M",
      "N","O","P","Q","R","S","T","U","V","W","X","Y","Z">>

LowerChars ==
    <<"a","b","c","d","e","f","g","h","i","j","k","l","m",
      "n","o","p","q","r","s","t","u","v","w","x","y","z">>

\* the lower-case letter of every upper-case letter
UpperToLower ==
    [c \in {UpperChars[i] : i \in 1..Len(UpperChars)} |->
        LowerChars[CHOOSE i \in 1..Len(UpperChars) : UpperChars[i] = c]]

LowerChar(c) == IF c \in DOMAIN UpperToLower THEN UpperToLower[c] ELSE c

RECURSIVE StrLower(_)
StrLower(s) ==
    IF s = <<>> THEN <<>> ELSE <<LowerChar(Head(s))>> \o StrLower(Tail(s))

RECURSIVE ApplyReplacements(_, _)
ApplyReplacements(s, i) ==
    IF i > Len(REPLACEMENTS) THEN s
    ELSE ApplyReplacements(
             StrReplace(s, REPLACEMENTS[i].value, REPLACEMENTS[i].replacement),
             i + 1)

(***************************************************************************)
(* fake.py: argument coercion helpers                                      *)
(***************************************************************************)
\* list(value) for the three accepted shapes; a non-iterable raises TypeError
EnsureIterable(value, default, param) ==
    IF value.t = "none" THEN [error |-> NoError, val |-> default]
    ELSE IF value.t = "str" THEN [error |-> NoError, val |-> <<value>>]
    ELSE IF value.t = "list" THEN [error |-> NoError, val |-> value.l]
    ELSE [error |-> Raise("TypeError", param), val |-> <<>>]

DigitChars == <<"0","1","2","3","4","5","6","7","8","9">>

IsDigit(c) == \E i \in 1..Len(DigitChars) : DigitChars[i] = c

DigitVal(c) == (CHOOSE i \in 1..Len(DigitChars) : DigitChars[i] = c) - 1

\* float(str) on the literals the model draws: a non-empty run of decimal
\* digits converts, anything else raises ValueError
RECURSIVE ParseDigits(_, _)
ParseDigits(s, acc) ==
    IF s = <<>> THEN acc ELSE ParseDigits(Tail(s), acc * 10 + DigitVal(Head(s)))

FloatOfStr(s) ==
    IF s # <<>> /\ \A i \in 1..Len(s) : IsDigit(s[i])
    THEN [error |-> NoError, val |-> ParseDigits(s, 0)]
    ELSE [error |-> Raise("ValueError", ""), val |-> 0]

\* EnsureFloat that falls back to 0.0 when the value does not convert
EnsureFloat_Lenient(value, param) ==
    IF value.t = "num" THEN [error |-> NoError, val |-> value.n]
    ELSE IF value.t = "str"
         THEN [error |-> NoError, val |-> FloatOfStr(value.s).val]
    ELSE [error |-> NoError, val |-> 0]

EnsureFloat(value, param) ==
    IF value.t = "num" THEN [error |-> NoError, val |-> value.n]
    ELSE IF value.t = "str"
         THEN [error |-> IF FloatOfStr(value.s).error = NoError THEN NoError
                         ELSE Raise("ValueError", param),
               val |-> FloatOfStr(value.s).val]
    ELSE [error |-> Raise("TypeError", param), val |-> 0]

\* [item for os_name in os for item in OS_REPLACEMENTS.get(os_name, [os_name])]
RECURSIVE ExpandOs(_)
ExpandOs(os) ==
    IF os = <<>> THEN <<>>
    ELSE (IF Head(os).t = "str"
             /\ \E e \in OS_REPLACEMENTS : e.key = Head(os).s
          THEN LET v == DictGet(OS_REPLACEMENTS, Head(os).s, <<>>)
               IN  [i \in 1..Len(v) |-> PyStr(v[i])]
          ELSE <<Head(os)>>)
         \o ExpandOs(Tail(os))

\* bad_indices: the 0-based positions of the entries that are not str
RECURSIVE BadIndices(_, _)
BadIndices(attrs, idx) ==
    IF idx > Len(attrs) THEN <<>>
    ELSE (IF attrs[idx].t # "str" THEN <<idx - 1>> ELSE <<>>)
         \o BadIndices(attrs, idx + 1)

\* CheckSafeAttrs reporting only the first entry that is not a str
CheckSafeAttrs_First(attrs) ==
    IF \A i \in 1..Len(attrs) : attrs[i].t = "str"
    THEN NoError
    ELSE [type |-> "TypeError", param |-> "safe_attrs",
          indices |-> <<Head(BadIndices(attrs, 1))>>]

CheckSafeAttrs(attrs) ==
    IF \A i \in 1..Len(attrs) : attrs[i].t = "str"
    THEN NoError
    ELSE [type |-> "TypeError", param |-> "safe_attrs",
          indices |-> BadIndices(attrs, 1)]

(***************************************************************************)
(* data/browsers.json: one JSON object per line                            *)
(***************************************************************************)
UA(n) == <<"U","A",n>>

Rec(ua, b, v, o, ty, pct) ==
    [useragent |-> ua, percent |-> pct, type |-> ty, system |-> b \o <<" ">> \o o,
     browser |-> b, version |-> v, os |-> o]

\* the records the lines of the file stand for
MasterRecords ==
    << Rec(UA("1"), CHROME, 122, WIN10, PC, 60),
       Rec(UA("2"), FIREFOX, 115, LINUX, PC, 30),
       Rec(UA("3"), EDGE, 120, WIN7, MOBILE, 10),
       Rec(UA("4"), CHROME, 100, LINUX, MOBILE, 25),
       Rec(UA("5"), OPERA, 130, WIN10, PC, 50),
       Rec(UA("6"), SAFARI, 121, MACOS, TABLET, 40) >>

\* the text of the lines, and a line that is not JSON
LineTexts == <<"line1", "line2", "line3", "line4", "line5", "line6">>
BadLine == "{"

FirstLines(n) == SubSeq(LineTexts, 1, n)

\* json.loads(line): the record of the line, or an exception
IsJson(line) == \E i \in DOMAIN LineTexts : LineTexts[i] = line
JsonLoads(line) ==
    MasterRecords[CHOOSE i \in DOMAIN LineTexts : LineTexts[i] = line]

(***************************************************************************)
(* utils.py: load()                                                        *)
(***************************************************************************)
\* for line in json_lines.splitlines(): data.append(json.loads(line))
RECURSIVE ParseLines(_, _)
ParseLines(lines, data) ==
    IF lines = <<>> THEN [ok |-> TRUE, data |-> data]
    ELSE IF ~IsJson(Head(lines)) THEN [ok |-> FALSE, data |-> data]
    ELSE ParseLines(Tail(lines), Append(data, JsonLoads(Head(lines))))

\* LoadAttempt whose except branch leaves in data what was appended
LoadAttempt_KeepsPartial(readable, lines, data) ==
    IF ~readable THEN [ok |-> FALSE, ret |-> <<>>, data |-> data]
    ELSE LET p == ParseLines(lines, data)
         IN  IF p.ok THEN [ok |-> TRUE, ret |-> p.data, data |-> p.data]
             ELSE [ok |-> FALSE, ret |-> <<>>, data |-> p.data]

\* one loading attempt appending to data: ret is a list on success, None
\* (ok = FALSE) after the except branch, where data is emptied again
LoadAttempt(readable, lines, data) ==
    IF ~readable THEN [ok |-> FALSE, ret |-> <<>>, data |-> <<>>]
    ELSE LET p == ParseLines(lines, data)
         IN  IF p.ok THEN [ok |-> TRUE, ret |-> p.data, data |-> p.data]
             ELSE [ok |-> FALSE, ret |-> <<>>, data |-> <<>>]

Load(res) ==
    LET first == LoadAttempt(res.ilr, res.lines, <<>>)
        second == LoadAttempt(res.pkg, res.pkg_lines, first.data)
        got == IF first.ok THEN first ELSE second
    IN  IF ~got.ok \/ got.ret = <<>>
        THEN [error |-> Raise("FakeUserAgentError", "data"), ret |-> <<>>]
        ELSE [error |-> NoError, ret |-> got.ret]

(***************************************************************************)
(* fake.py: FakeUserAgent.__init__                                         *)
(***************************************************************************)
DefaultBrowsers == <<PyStr(CHROME), PyStr(FIREFOX), PyStr(SAFARI), PyStr(EDGE)>>
DefaultOs == <<PyStr(WIN10), PyStr(MACOS), PyStr(LINUX)>>
DefaultPlatforms == <<PyStr(PC), PyStr(MOBILE), PyStr(TABLET)>>

NoSelf ==
    [browsers |-> <<>>, os |-> <<>>, platforms |-> <<>>,
     min_version |-> 0, min_percentage |-> 0, fallback |-> <<>>,
     safe_attrs |-> {}, data_browsers |-> <<>>]

Failed(e) == [error |-> e, self |-> NoSelf, loads |-> 0]

\* The statements of __init__ in order; the first one that raises ends it.
FakeUserAgentInit(a, res) ==
    LET b == EnsureIterable(a.browsers, DefaultBrowsers, "browsers")
        o == EnsureIterable(a.os, DefaultOs, "os")
        mp == EnsureFloat(a.min_percentage, "min_percentage")
        mv == EnsureFloat(a.min_version, "min_version")
        p == EnsureIterable(a.platforms, DefaultPlatforms, "platforms")
        sa == EnsureIterable(a.safe_attrs, <<>>, "safe_attrs")
        ld == Load(res)
    IN  IF b.error # NoError THEN Failed(b.error)
        ELSE IF o.error # NoError THEN Failed(o.error)
        ELSE IF mp.error # NoError THEN Failed(mp.error)
        ELSE IF mv.error # NoError THEN Failed(mv.error)
        ELSE IF p.error # NoError THEN Failed(p.error)
        ELSE IF a.fallback.t # "str" THEN Failed(Raise("TypeError", "fallback"))
        ELSE IF sa.error # NoError THEN Failed(sa.error)
        ELSE IF CheckSafeAttrs(sa.val) # NoError
             THEN Failed(CheckSafeAttrs(sa.val))
        ELSE IF ld.error # NoError
             THEN [error |-> ld.error, self |-> NoSelf, loads |-> 1]
        ELSE [error |-> NoError,
              self |-> [browsers |-> b.val,
                        os |-> ExpandOs(o.val),
                        platforms |-> p.val,
                        min_version |-> mv.val,
                        min_percentage |-> mp.val,
                        fallback |-> a.fallback.s,
                        safe_attrs |-> {sa.val[i] : i \in 1..Len(sa.val)},
                        data_browsers |-> ld.ret],
              loads |-> 1]

(***************************************************************************)
(* fake.py: filtering and the two lookup entry points                      *)
(***************************************************************************)
\* Python's "x in list"
InList(v, l) == \E i \in 1..Len(l) : l[i] = v

\* Truthy that takes every string for true
Truthy_NotNone(v) == v.t = "str"

\* Python truthiness of the request argument (None and "" are false)
Truthy(v) == v.t = "str" /\ v.s # <<>>

\* PassesConfig without the version threshold
PassesConfig_NoVersion(slf, x) ==
    /\ InList(PyStr(x.browser), slf.browsers)
    /\ InList(PyStr(x.os), slf.os)
    /\ InList(PyStr(x.type), slf.platforms)
    /\ x.percent >= slf.min_percentage

\* PassesConfig with an exclusive version threshold
PassesConfig_Exclusive(slf, x) ==
    /\ InList(PyStr(x.browser), slf.browsers)
    /\ InList(PyStr(x.os), slf.os)
    /\ InList(PyStr(x.type), slf.platforms)
    /\ x.version > slf.min_version
    /\ x.percent >= slf.min_percentage

PassesConfig(slf, x) ==
    /\ InList(PyStr(x.browser), slf.browsers)
    /\ InList(PyStr(x.os), slf.os)
    /\ InList(PyStr(x.type), slf.platforms)
    /\ x.version >= slf.min_version
    /\ x.percent >= slf.min_percentage

FilterUseragents(slf, request) ==
    LET filtered_useragents ==
            SelectSeq(slf.data_browsers, LAMBDA x : PassesConfig(slf, x))
    IN  IF Truthy(request)
        THEN SelectSeq(filtered_useragents, LAMBDA x : x.browser = request.s)
        ELSE filtered_useragents

\* NormalizeRequest without request.lower()
NormalizeRequest_NoLower(request) ==
    DictGet(SHORTCUTS, ApplyReplacements(request, 1),
            ApplyReplacements(request, 1))

\* getBrowser: the three statements that rewrite request
NormalizeRequest(request) ==
    LET lowered == StrLower(ApplyReplacements(request, 1))
    IN  DictGet(SHORTCUTS, lowered, lowered)

\* NormalizeAttr without the SHORTCUTS lookup
NormalizeAttr_NoShortcut(attr) == StrLower(ApplyReplacements(attr, 1))

\* __getattr__: the three statements that rewrite attr
NormalizeAttr(attr) ==
    LET lowered == StrLower(ApplyReplacements(attr, 1))
    IN  DictGet(SHORTCUTS, lowered, lowered)

\* the keys that lookups are made with
Keys ==
    { RANDOM, CHROME, FIREFOX, EDGE, SAFARI, NETSCAPE, OK, <<>>, <<" ","_">>,
      <<"G","o","o","g","l","e"," ","C","h","r","o","m","e">>,
      <<"g","o","o","g","l","e","_","c","h","r","o","m","e">>,
      GOOGLECHROME, GOOGLE, FF,
      <<"M","i","c","r","o","s","o","f","t"," ","E","d","g","e">>,
      <<"m","i","c","r","o","s","o","f","t","_","e","d","g","e">>,
      MICROSOFTEDGE }

\* NormalizeRequest and NormalizeAttr tabulated over Keys
RequestNames == [k \in Keys |-> NormalizeRequest(k)]
AttrNames == [k \in Keys |-> NormalizeAttr(k)]

\* getBrowser: filtered_browsers
BrowserCandidates(slf, request) ==
    IF RequestNames[request] = RANDOM
    THEN FilterUseragents(slf, PyNone)
    ELSE FilterUseragents(slf, PyStr(RequestNames[request]))

\* __getattr__: filtered_browsers
AttrCandidates(slf, attr) ==
    IF AttrNames[attr] = RANDOM
    THEN FilterUseragents(slf, PyNone)
    ELSE FilterUseragents(slf, PyStr(AttrNames[attr]))

NoRecord ==
    [useragent |-> <<>>, percent |-> 0, type |-> <<>>, system |-> <<>>,
     browser |-> <<>>, version |-> 0, os |-> <<>>]

CHROME_122_WIN10 ==
    <<"C","h","r","o","m","e"," ","1","2","2",".","0"," ","W","i","n","1","0">>

\* FallbackRecord with the version taken from the configuration
FallbackRecord_Derived(slf) ==
    [useragent |-> slf.fallback, percent |-> 100, type |-> PC,
     system |-> CHROME_122_WIN10, browser |-> CHROME,
     version |-> slf.min_version, os |-> WIN10]

\* getBrowser: the dict built in the except branch
FallbackRecord(slf) ==
    [useragent |-> slf.fallback, percent |-> 100, type |-> PC,
     system |-> CHROME_122_WIN10, browser |-> CHROME, version |-> 122,
     os |-> WIN10]

ReturnRecord(r) == [kind |-> "record", str |-> <<>>, rec |-> r, exc |-> ""]
ReturnStr(s) == [kind |-> "str", str |-> s, rec |-> NoRecord, exc |-> ""]
ReturnAttr == [kind |-> "attr", str |-> <<>>, rec |-> NoRecord, exc |-> ""]
Raised(e) == [kind |-> "raise", str |-> <<>>, rec |-> NoRecord, exc |-> e]
NoResult == [kind |-> "none", str |-> <<>>, rec |-> NoRecord, exc |-> ""]

\* The accessor properties: the entry point each one calls and its fixed key.
\* googlechrome and ff go through the chrome and firefox properties.
PROPERTIES ==
    { [name |-> CHROME, entry |-> "__getattr__", key |-> CHROME],
      [name |-> GOOGLECHROME, entry |-> "__getattr__", key |-> CHROME],
      [name |-> EDGE, entry |-> "__getattr__", key |-> EDGE],
      [name |-> FIREFOX, entry |-> "__getattr__", key |-> FIREFOX],
      [name |-> FF, entry |-> "__getattr__", key |-> FIREFOX],
      [name |-> SAFARI, entry |-> "__getattr__", key |-> SAFARI],
      [name |-> RANDOM, entry |-> "__getattr__", key |-> RANDOM],
      [name |-> <<"g","e","t","F","i","r","e","f","o","x">>,
       entry |-> "getBrowser", key |-> FIREFOX],
      [name |-> <<"g","e","t","C","h","r","o","m","e">>,
       entry |-> "getBrowser", key |-> CHROME],
      [name |-> <<"g","e","t","E","d","g","e">>,
       entry |-> "getBrowser", key |-> EDGE],
      [name |-> <<"g","e","t","S","a","f","a","r","i">>,
       entry |-> "getBrowser", key |-> SAFARI],
      [name |-> <<"g","e","t","R","a","n","d","o","m">>,
       entry |-> "getBrowser", key |-> RANDOM] }

IsProperty(k) == \E p \in PROPERTIES : p.name = k
PropertyOf(k) == CHOOSE p \in PROPERTIES : p.name = k

\* the names __init__ assigns on the instance
InstanceAttrs ==
    { <<"b","r","o","w","s","e","r","s">>, <<"o","s">>,
      <<"p","l","a","t","f","o","r","m","s">>,
      <<"f","a","l","l","b","a","c","k">> }

\* the properties whose getter reads another property (self.chrome,
\* self.firefox) before __getattr__ is reached
AliasProperties == { GOOGLECHROME, FF }

\* frames between a property access and the call its getter ends in
GetterFrames(name) == IF name \in AliasProperties THEN 2 ELSE 1

\* Where a call of __getattr__(attr) running in frame number depth ends, and
\* the deepest frame it reaches.  An attr outside safe_attrs is looked up; an
\* attr in safe_attrs goes to object.__getattribute__, which returns an
\* instance attribute, raises AttributeError for an unknown name, or runs
\* the getter of a property, and that getter calls getBrowser or __getattr__
\* again.
RECURSIVE GetAttrFrames(_, _, _)
GetAttrFrames(slf, attr, depth) ==
    IF depth > RecursionLimit
    THEN [end |-> "RecursionError", key |-> attr, frames |-> RecursionLimit]
    ELSE IF PyStr(attr) \notin slf.safe_attrs
    THEN [end |-> "lookup", key |-> attr, frames |-> depth]
    ELSE IF attr \in InstanceAttrs
    THEN [end |-> "attr", key |-> attr, frames |-> depth]
    ELSE IF ~IsProperty(attr)
    THEN [end |-> "AttributeError", key |-> attr, frames |-> depth]
    ELSE IF PropertyOf(attr).entry = "getBrowser"
    THEN [end |-> "getBrowser", key |-> PropertyOf(attr).key,
          frames |-> depth + GetterFrames(attr) + 1]
    ELSE GetAttrFrames(slf, PropertyOf(attr).key,
                       depth + GetterFrames(attr) + 1)

(***************************************************************************)
(* Inputs                                                                  *)
(***************************************************************************)
\* the data file as each of the two strategies finds it: whether it can be
\* read at all, and its lines; the strategies locate the file independently,
\* so they need not read the same copy
SameFile(ilr, pkg, lines) ==
    [ilr |-> ilr, pkg |-> pkg, lines |-> lines, pkg_lines |-> lines]

Resources ==
    { SameFile(TRUE, TRUE, FirstLines(n)) : n \in {0, MaxLines} }
    \cup { SameFile(FALSE, FALSE, FirstLines(MaxLines)),
           SameFile(TRUE, TRUE, Append(FirstLines(1), BadLine)),
           [ilr |-> TRUE, pkg |-> TRUE,
            lines |-> Append(FirstLines(1), BadLine),
            pkg_lines |-> FirstLines(MaxLines)] }

DEFAULT_FALLBACK == <<"F","B">>
CUSTOM_FALLBACK == <<"M","y","U","A">>

BrowsersArgs ==
    { PyNone, PyList(<<PyStr(FIREFOX), PyStr(EDGE)>>),
      PyList(<<PyStr(CHROME), PyNum(5)>>) }

OsArgs ==
    { PyNone, PyList(<<PyStr(LINUX), PyStr(WINDOWS)>>) }

MinVersionArgs ==
    { PyNum(0), PyStr(<<"1","2","0">>), PyNum(99999),
      PyStr(<<"n","o","t","-","a","-","n","u","m","b","e","r">>), PyNone }

MinPercentageArgs == { PyNum(0), PyNum(20), PyStr(<<"a","b","c">>) }

PlatformsArgs == { PyNone, PyStr(PC) }

FallbackArgs == { PyStr(DEFAULT_FALLBACK), PyStr(CUSTOM_FALLBACK), PyNum(123) }

SafeAttrsArgs ==
    { PyNone,
      PyList(<<PyStr(OK), PyStr(RANDOM)>>),
      PyList(<<PyStr(OK), PyNum(5)>>),
      PyList(<<PyNum(5), PyStr(OK), PyNum(6)>>) }

\* the defaults of the signature of __init__ (DEFAULT_FALLBACK stands for the
\* Chrome/122 literal)
DefaultArgs ==
    [browsers |-> PyNone, os |-> PyNone, min_version |-> PyNum(0),
     min_percentage |-> PyNum(0), platforms |-> PyNone,
     fallback |-> PyStr(DEFAULT_FALLBACK), safe_attrs |-> PyNone]

Overrides(a) == Cardinality({f \in DOMAIN a : a[f] # DefaultArgs[f]})

\* constructor calls that pass at most MaxOverrides keyword arguments
ArgsSet ==
    { a \in [browsers : BrowsersArgs, os : OsArgs,
             min_version : MinVersionArgs,
             min_percentage : MinPercentageArgs, platforms : PlatformsArgs,
             fallback : FallbackArgs, safe_attrs : SafeAttrsArgs] :
          Overrides(a) <= MaxOverrides }

(***************************************************************************)
(* State                                                                   *)
(***************************************************************************)
VARIABLES
    args,       \* the arguments of the constructor call
    resource,   \* the packaged data file and the two ways to read it
    phase,      \* "new", "ready" (constructed) or "failed" (__init__ raised)
    self,       \* the instance attributes
    error,      \* the exception __init__ raised
    loads,      \* number of load() calls made
    key,        \* the argument of the last lookup
    cands,      \* its filtered_browsers
    result,     \* what it returned or raised
    calls,      \* number of lookups made
    warnings,   \* number of logger.warning calls made by lookups
    frames,     \* deepest Python frame the last lookup reached
    threads     \* the local variables of the lookups running concurrently

Threads == 1..NThreads

IdleThread ==
    [pc |-> "idle", entry |-> "", key |-> <<>>, request |-> <<>>,
     filtered |-> <<>>, ret |-> NoResult]

vars ==
    <<args, resource, phase, self, error, loads, key, cands, result, calls,
      warnings, frames, threads>>

Init ==
    /\ args \in ArgsSet
    /\ resource \in Resources
    /\ phase = "new"
    /\ self = NoSelf
    /\ error = NoError
    /\ loads = 0
    /\ key = <<>>
    /\ cands = <<>>
    /\ result = NoResult
    /\ calls = 0
    /\ warnings = 0
    /\ frames = 0
    /\ threads = [t \in Threads |-> IdleThread]

(***************************************************************************)
(* Actions                                                                 *)
(***************************************************************************)
\* FakeUserAgent(**args)
Construct ==
    /\ phase = "new"
    /\ LET c == FakeUserAgentInit(args, resource)
       IN  /\ phase' = IF c.error = NoError THEN "ready" ELSE "failed"
           /\ self' = c.self
           /\ error' = c.error
           /\ loads' = c.loads
    /\ UNCHANGED <<args, resource, key, cands, result, calls, warnings, frames,
                 threads>>

CanCall == phase = "ready" /\ calls < MaxCalls

Called(k) ==
    /\ key' = k
    /\ calls' = calls + 1
    /\ UNCHANGED <<args, resource, phase, self, error, loads, threads>>

\* DoGetBrowser returning a rebuilt copy of the chosen record
DoGetBrowser_Copy(k, request) ==
    \E filtered_browsers \in {BrowserCandidates(self, request)} :
        /\ Called(k)
        /\ cands' = filtered_browsers
        /\ IF filtered_browsers # <<>>
           THEN /\ \E i \in 1..Len(filtered_browsers) :
                       result' = ReturnRecord(
                           [filtered_browsers[i] EXCEPT !.percent = 100])
                /\ warnings' = warnings
           ELSE /\ result' = ReturnRecord(FallbackRecord(self))
                /\ warnings' = warnings + 1

\* DoGetBrowser that returns the fallback record without logging
DoGetBrowser_Silent(k, request) ==
    \E filtered_browsers \in {BrowserCandidates(self, request)} :
        /\ Called(k)
        /\ cands' = filtered_browsers
        /\ warnings' = warnings
        /\ IF filtered_browsers # <<>>
           THEN \E i \in 1..Len(filtered_browsers) :
                    result' = ReturnRecord(filtered_browsers[i])
           ELSE result' = ReturnRecord(FallbackRecord(self))

\* the body of getBrowser(request), run for a call whose argument was k
DoGetBrowser(k, request) ==
    \E filtered_browsers \in {BrowserCandidates(self, request)} :
        /\ Called(k)
        /\ cands' = filtered_browsers
        /\ IF filtered_browsers # <<>>
           THEN /\ \E i \in 1..Len(filtered_browsers) :
                       result' = ReturnRecord(filtered_browsers[i])
                /\ warnings' = warnings
           ELSE /\ result' = ReturnRecord(FallbackRecord(self))
                /\ warnings' = warnings + 1

\* DoLookup with an except clause that does not catch IndexError
DoLookup_Uncaught(k, attr) ==
    \E filtered_browsers \in {AttrCandidates(self, attr)} :
        /\ Called(k)
        /\ cands' = filtered_browsers
        /\ warnings' = warnings
        /\ IF filtered_browsers # <<>>
           THEN \E i \in 1..Len(filtered_browsers) :
                    result' = ReturnStr(filtered_browsers[i].useragent)
           ELSE result' = Raised("IndexError")

\* the try block of __getattr__(attr)
DoLookup(k, attr) ==
    \E filtered_browsers \in {AttrCandidates(self, attr)} :
        /\ Called(k)
        /\ cands' = filtered_browsers
        /\ IF filtered_browsers # <<>>
           THEN /\ \E i \in 1..Len(filtered_browsers) :
                       result' = ReturnStr(filtered_browsers[i].useragent)
                /\ warnings' = warnings
           ELSE /\ result' = ReturnStr(self.fallback)
                /\ warnings' = warnings + 1

NoLookup(k, r) ==
    /\ Called(k)
    /\ cands' = <<>>
    /\ result' = r
    /\ warnings' = warnings

\* super().__getattribute__(attr) for an attr in safe_attrs: an instance
\* attribute is returned, a property getter runs (and re-enters __getattr__),
\* any other name raises AttributeError
ObjectGetAttribute(k, attr) ==
    IF attr \in InstanceAttrs THEN NoLookup(k, ReturnAttr)
    ELSE IF IsProperty(attr)
         THEN IF PropertyOf(attr).entry = "getBrowser"
              THEN DoGetBrowser(k, PropertyOf(attr).key)
              ELSE IF GetAttrFrames(self, PropertyOf(attr).key,
                                    GetterFrames(attr) + 2).end
                          = "RecursionError"
                   THEN NoLookup(k, Raised("RecursionError"))
                   ELSE DoLookup(k, PropertyOf(attr).key)
    ELSE NoLookup(k, Raised("AttributeError"))

\* the body of __getattr__(attr)
DoGetAttr(k, attr) ==
    IF PyStr(attr) \in self.safe_attrs
    THEN ObjectGetAttribute(k, attr)
    ELSE DoLookup(k, attr)

\* ua.getBrowser(k)
GetBrowser(k) ==
    /\ CanCall
    /\ frames' = 1
    /\ DoGetBrowser(k, k)

\* ua.k where ordinary attribute lookup finds no attribute named k
GetAttr(k) ==
    /\ CanCall
    /\ ~IsProperty(k) /\ k \notin InstanceAttrs
    /\ frames' = GetAttrFrames(self, k, 1).frames
    /\ DoGetAttr(k, k)

\* ua[k]
GetItem(k) ==
    /\ CanCall
    /\ frames' = GetAttrFrames(self, k, 2).frames
    /\ DoGetAttr(k, k)

\* ua.chrome, ua.getChrome, ...
Property(p) ==
    /\ CanCall
    /\ IF p.entry = "getBrowser"
       THEN frames' = GetterFrames(p.name) + 1 /\ DoGetBrowser(p.key, p.key)
       ELSE /\ frames' = GetAttrFrames(self, p.key,
                                       GetterFrames(p.name) + 1).frames
            /\ DoGetAttr(p.key, p.key)

Next ==
    \/ Construct
    \/ \E k \in Keys : GetBrowser(k)
    \/ \E k \in Keys : GetAttr(k)
    \/ \E k \in Keys : GetItem(k)
    \/ \E p \in PROPERTIES : Property(p)

Spec == Init /\ [][Next]_vars

(***************************************************************************)
(* Concurrent lookups: each thread runs getBrowser or __getattr__ statement *)
(* by statement, reading self when the statement reads it.                 *)
(***************************************************************************)
ConcKeys ==
    { RANDOM, FIREFOX, NETSCAPE,
      <<"G","o","o","g","l","e"," ","C","h","r","o","m","e">> }

ConcArgs ==
    { DefaultArgs,
      [DefaultArgs EXCEPT !.browsers = PyList(<<PyStr(FIREFOX), PyStr(EDGE)>>),
                          !.fallback = PyStr(CUSTOM_FALLBACK)],
      [DefaultArgs EXCEPT !.min_version = PyNum(99999)] }

InitConc ==
    /\ Init
    /\ args \in ConcArgs
    /\ resource = SameFile(TRUE, TRUE, FirstLines(MaxLines))

Shared == <<args, resource, phase, error, loads, key, cands, result, calls, frames>>

\* a thread calls ua.getBrowser(k) or ua.__getattr__(k), k not in safe_attrs
ThreadEnter(t, entry, k) ==
    /\ phase = "ready"
    /\ threads[t].pc = "idle"
    /\ PyStr(k) \notin self.safe_attrs
    /\ threads' = [threads EXCEPT ![t] =
                       [IdleThread EXCEPT !.pc = "normalize", !.entry = entry,
                                          !.key = k, !.request = k]]
    /\ UNCHANGED <<Shared, self, warnings>>

\* the replace / lower / SHORTCUTS.get statements
ThreadNormalize(t) ==
    /\ threads[t].pc = "normalize"
    /\ threads' = [threads EXCEPT
                       ![t].pc = "filter",
                       ![t].request =
                           IF threads[t].entry = "getBrowser"
                           THEN NormalizeRequest(threads[t].request)
                           ELSE NormalizeAttr(threads[t].request)]
    /\ UNCHANGED <<Shared, self, warnings>>

\* ThreadFilter that filters self.data_browsers in place
ThreadFilter_InPlace(t) ==
    /\ threads[t].pc = "filter"
    /\ LET f == IF threads[t].request = RANDOM
                THEN FilterUseragents(self, PyNone)
                ELSE FilterUseragents(self, PyStr(threads[t].request))
       IN  /\ threads' = [threads EXCEPT ![t].pc = "choose", ![t].filtered = f]
           /\ self' = [self EXCEPT !.data_browsers = f]
    /\ UNCHANGED <<Shared, warnings>>

\* filtered_browsers = self._filter_useragents(...)
ThreadFilter(t) ==
    /\ threads[t].pc = "filter"
    /\ threads' = [threads EXCEPT
                       ![t].pc = "choose",
                       ![t].filtered =
                           IF threads[t].request = RANDOM
                           THEN FilterUseragents(self, PyNone)
                           ELSE FilterUseragents(self,
                                                 PyStr(threads[t].request))]
    /\ UNCHANGED <<Shared, self, warnings>>

\* return random.choice(filtered_browsers), or IndexError on an empty list
ThreadChoose(t) ==
    /\ threads[t].pc = "choose"
    /\ IF threads[t].filtered = <<>>
       THEN threads' = [threads EXCEPT ![t].pc = "except"]
       ELSE \E i \in 1..Len(threads[t].filtered) :
                threads' = [threads EXCEPT
                    ![t].pc = "done",
                    ![t].ret =
                        IF threads[t].entry = "getBrowser"
                        THEN ReturnRecord(threads[t].filtered[i])
                        ELSE ReturnStr(threads[t].filtered[i].useragent)]
    /\ UNCHANGED <<Shared, self, warnings>>

\* the except branch: logger.warning, then the fallback is returned
ThreadExcept(t) ==
    /\ threads[t].pc = "except"
    /\ warnings' = warnings + 1
    /\ threads' = [threads EXCEPT
                       ![t].pc = "done",
                       ![t].ret = IF threads[t].entry = "getBrowser"
                                  THEN ReturnRecord(FallbackRecord(self))
                                  ELSE ReturnStr(self.fallback)]
    /\ UNCHANGED <<Shared, self>>

NextConc ==
    \/ Construct
    \/ \E t \in Threads, k \in ConcKeys : ThreadEnter(t, "getBrowser", k)
    \/ \E t \in Threads, k \in ConcKeys : ThreadEnter(t, "__getattr__", k)
    \/ \E t \in Threads : ThreadNormalize(t)
    \/ \E t \in Threads : ThreadFilter(t)
    \/ \E t \in Threads : ThreadChoose(t)
    \/ \E t \in Threads : ThreadExcept(t)

SpecConc == InitConc /\ [][NextConc]_vars

(***************************************************************************)
(* Properties                                                              *)
(***************************************************************************)
Elems(l) == {l[i] : i \in DOMAIN l}

Looked == phase = "ready" /\ calls > 0
Exempt == PyStr(key) \in self.safe_attrs

\* the records of the catalog that pass the five configuration filters
Admitted ==
    { r \in Elems(self.data_browsers) :
          /\ PyStr(r.browser) \in Elems(self.browsers)
          /\ PyStr(r.os) \in Elems(self.os)
          /\ PyStr(r.type) \in Elems(self.platforms)
          /\ ~(r.version < self.min_version)
          /\ ~(r.percent < self.min_percentage) }

FixedFallbackRecord ==
    [useragent |-> self.fallback, percent |-> 100, type |-> <<"p","c">>,
     system |-> <<"C","h","r","o","m","e"," ","1","2","2",".","0"," ",
                  "W","i","n","1","0">>,
     browser |-> <<"c","h","r","o","m","e">>, version |-> 122,
     os |-> <<"w","i","n","1","0">>]

\* C1: a string lookup with key "random" returns the useragent of a record
\* that passes the configuration filters, or exactly the configured fallback
\* when no record passes; no other string is ever returned (with "random" in
\* safe_attrs the call returns no string at all).
C1_RandomString ==
    (Looked /\ key = RANDOM /\ result.kind # "record") =>
        /\ ~Exempt => result.kind = "str"
        /\ result.kind = "str" =>
               IF Admitted = {}
               THEN result.str = self.fallback /\ self.fallback = args.fallback.s
               ELSE \E r \in Admitted : result.str = r.useragent

C1_Witness ==
    /\ Looked /\ key = RANDOM /\ result.kind = "str"
    /\ Cardinality(Admitted) >= 2
    /\ Cardinality(Admitted) < Len(self.data_browsers)
    /\ result.str # self.fallback

\* C2: when the filters admit no record, getBrowser returns the fixed
\* fallback record, whose useragent is the configured fallback and whose other
\* six fields are constants, and a string lookup returns the configured
\* fallback.
C2_ZeroCandidates ==
    (Looked /\ Admitted = {} /\ ~Exempt) =>
        /\ self.fallback = args.fallback.s
        /\ result.kind \in {"record", "str"}
        /\ result.kind = "record" => result.rec = FixedFallbackRecord
        /\ result.kind = "str" => result.str = self.fallback

C2_Witness ==
    /\ Looked /\ Admitted = {} /\ ~Exempt
    /\ self.data_browsers # <<>>
    /\ result.kind = "record"
    /\ result.rec.useragent = CUSTOM_FALLBACK

\* C3: a lookup with a key outside safe_attrs always returns (a string from a
\* string lookup, a record from getBrowser) and never raises; the key
\* "netscape", which names no record, gives the fallback string or the fixed
\* fallback record.
C3_NoLookupError ==
    (Looked /\ ~Exempt) =>
        /\ result.kind \in {"record", "str"}
        /\ key = NETSCAPE =>
               /\ result.kind = "record" => result.rec = FixedFallbackRecord
               /\ result.kind = "str" => result.str = self.fallback

C3_Witness ==
    /\ Looked /\ ~Exempt /\ key = NETSCAPE
    /\ Admitted # {}
    /\ result.kind = "str"
    /\ result.str = self.fallback

ChromeSpellings ==
    { <<"G","o","o","g","l","e"," ","C","h","r","o","m","e">>,
      <<"g","o","o","g","l","e","_","c","h","r","o","m","e">>,
      <<"g","o","o","g","l","e","c","h","r","o","m","e">>,
      <<"g","o","o","g","l","e">> }

\* the candidates the entry point that produced the last result computes for k
CandidatesFor(k) ==
    IF result.kind = "record" THEN BrowserCandidates(self, k)
    ELSE AttrCandidates(self, k)

NormalizationIdempotent ==
    \A k \in Keys :
        /\ NormalizeRequest(NormalizeRequest(k)) = NormalizeRequest(k)
        /\ NormalizeAttr(NormalizeAttr(k)) = NormalizeAttr(k)

\* C4: normalizing a normalized key changes nothing, and a lookup with
\* "Google Chrome", "google_chrome", "googlechrome" or "google" computes the
\* candidates of "chrome", a lookup with "ff" those of "firefox".
C4_Normalization ==
    /\ NormalizationIdempotent
    /\ (Looked /\ ~Exempt /\ key \in ChromeSpellings) =>
           cands = CandidatesFor(<<"c","h","r","o","m","e">>)
    /\ (Looked /\ ~Exempt /\ key = <<"f","f">>) =>
           cands = CandidatesFor(<<"f","i","r","e","f","o","x">>)

C4_Witness ==
    /\ Looked /\ ~Exempt
    /\ key = <<"G","o","o","g","l","e"," ","C","h","r","o","m","e">>
    /\ cands # <<>>
    /\ \E r \in Admitted : r.browser # CHROME

EdgeSpellings ==
    { <<"M","i","c","r","o","s","o","f","t"," ","E","d","g","e">>,
      <<"m","i","c","r","o","s","o","f","t","_","e","d","g","e">>,
      <<"m","i","c","r","o","s","o","f","t","e","d","g","e">> }

\* C5: a lookup with "Microsoft Edge", "microsoft_edge" or "microsoftedge"
\* computes the candidates of "edge".
C5_MicrosoftEdge ==
    (Looked /\ ~Exempt /\ key \in EdgeSpellings) =>
        cands = CandidatesFor(<<"e","d","g","e">>)

\* the os argument as the list of tokens it denotes
OsTokens ==
    IF args.os.t = "str" THEN <<args.os>>
    ELSE IF args.os.t = "list" THEN args.os.l
    ELSE <<>>

RECURSIVE WindowsExpanded(_)
WindowsExpanded(l) ==
    IF l = <<>> THEN <<>>
    ELSE IF Head(l) = PyStr(<<"w","i","n","d","o","w","s">>)
         THEN <<PyStr(<<"w","i","n","1","0">>), PyStr(<<"w","i","n","7">>)>>
              \o WindowsExpanded(Tail(l))
         ELSE <<Head(l)>> \o WindowsExpanded(Tail(l))

\* the selector built from the same arguments with the os tokens written out
ExpandedTwin ==
    FakeUserAgentInit([args EXCEPT !.os = PyList(WindowsExpanded(OsTokens))],
                      resource).self

\* C6: an os argument that contains "windows" is stored with that token
\* replaced in place by "win10", "win7", and every lookup computes the
\* candidates that the selector built with the expanded tokens computes.
C6_WindowsExpansion ==
    (phase = "ready" /\ PyStr(WINDOWS) \in Elems(OsTokens)) =>
        /\ self.os = WindowsExpanded(OsTokens)
        /\ self = ExpandedTwin
        /\ (calls > 0 /\ result.kind \in {"record", "str"}) =>
               cands = IF result.kind = "record"
                       THEN BrowserCandidates(ExpandedTwin, key)
                       ELSE AttrCandidates(ExpandedTwin, key)

C6_Witness ==
    /\ Looked
    /\ args.os = PyList(<<PyStr(LINUX), PyStr(WINDOWS)>>)
    /\ self.os = <<PyStr(LINUX), PyStr(WIN10), PyStr(WIN7)>>
    /\ \E i \in DOMAIN cands : cands[i].os = WIN7

\* C7: a record that getBrowser returns from a non-empty candidate list is an
\* element of the catalog, equal in all seven fields to a record of the
\* loaded resource.
C7_ExactElement ==
    (Looked /\ result.kind = "record" /\ cands # <<>>) =>
        /\ result.rec \in Elems(self.data_browsers)
        /\ \E line \in Elems(resource.lines) \cup Elems(resource.pkg_lines) :
               IsJson(line) /\ JsonLoads(line) = result.rec

C7_Witness ==
    /\ Looked /\ result.kind = "record" /\ Len(cands) >= 2
    /\ result.rec = cands[2]

SameNormalization == \A k \in Keys : NormalizeRequest(k) = NormalizeAttr(k)

\* C8: getBrowser and __getattr__ normalize every key to the same name and
\* compute the same candidates; one falls back exactly when the other does,
\* and the strings one can return are the useragent fields of the records the
\* other can return.
C8_SameCodePath ==
    /\ SameNormalization
    /\ (Looked /\ ~Exempt) =>
           /\ cands = BrowserCandidates(self, key)
           /\ cands = AttrCandidates(self, key)
           /\ (result.kind = "str" /\ BrowserCandidates(self, key) = <<>>) =>
                  result.str = self.fallback
           /\ (result.kind = "str" /\ BrowserCandidates(self, key) # <<>>) =>
                  \E r \in Elems(BrowserCandidates(self, key)) :
                      result.str = r.useragent
           /\ (result.kind = "record" /\ AttrCandidates(self, key) = <<>>) =>
                  result.rec = FixedFallbackRecord
           /\ (result.kind = "record" /\ AttrCandidates(self, key) # <<>>) =>
                  result.rec \in Elems(AttrCandidates(self, key))

C8_Witness ==
    /\ Looked /\ ~Exempt
    /\ key = <<"g","o","o","g","l","e","_","c","h","r","o","m","e">>
    /\ result.kind = "str"
    /\ cands # <<>>

NotAFloat ==
    { PyStr(<<"n","o","t","-","a","-","n","u","m","b","e","r">>),
      PyStr(<<"a","b","c">>), PyNone }

\* C9: when min_version or min_percentage does not convert to a float, or
\* fallback is not a string, construction raises, no instance attributes
\* result, and load() has not been called.
C9_FailFast ==
    (phase # "new"
     /\ (\/ args.min_version \in NotAFloat
         \/ args.min_percentage \in NotAFloat
         \/ args.fallback.t # "str")) =>
        /\ phase = "failed"
        /\ error.type \in {"ValueError", "TypeError"}
        /\ error.param \in {"min_version", "min_percentage", "fallback"}
        /\ self = NoSelf
        /\ loads = 0

C9_Witness ==
    /\ phase = "failed"
    /\ args.min_version = PyStr(<<"n","o","t","-","a","-","n","u","m","b","e","r">>)
    /\ error.type = "ValueError"
    /\ resource.ilr /\ resource.lines # <<>>
    /\ loads = 0

OtherArgsValid ==
    /\ args.min_version \notin NotAFloat
    /\ args.min_percentage \notin NotAFloat
    /\ args.fallback.t = "str"

\* C10: when the other arguments are valid, a safe_attrs list with entries
\* that are not strings makes construction raise an error that names the
\* 0-based indices of all those entries; a list of strings is stored as the
\* set of its entries.
C10_SafeAttrsIndices ==
    (phase # "new" /\ args.safe_attrs.t = "list" /\ OtherArgsValid) =>
        LET l == args.safe_attrs.l
            bad == {i \in DOMAIN l : l[i].t # "str"}
        IN  IF bad # {}
            THEN /\ phase = "failed"
                 /\ error.type = "TypeError"
                 /\ error.param = "safe_attrs"
                 /\ Elems(error.indices) = {i - 1 : i \in bad}
                 /\ Len(error.indices) = Cardinality(bad)
                 /\ loads = 0
            ELSE phase = "ready" => self.safe_attrs = Elems(l)

C10_Witness ==
    /\ phase = "failed"
    /\ args.safe_attrs = PyList(<<PyNum(5), PyStr(OK), PyNum(6)>>)
    /\ error.indices = <<0, 2>>

\* C11: every lookup ends after a bounded number of nested calls: it never
\* exhausts the interpreter's recursion limit, whatever safe_attrs holds.
C11_Completes ==
    Looked => (result.exc # "RecursionError" /\ frames < RecursionLimit)

\* the keys that are canonical browser names already
PlainNames == { CHROME, FIREFOX, EDGE, SAFARI, NETSCAPE }

\* the positions of the catalog records the filter must keep for the last key
KeptPositions ==
    { i \in DOMAIN self.data_browsers :
          /\ self.data_browsers[i] \in Admitted
          /\ key \in PlainNames => self.data_browsers[i].browser = key }

C13_OneWarning ==
    [][calls' = calls + 1 =>
          /\ (cands' = <<>> /\ result'.kind \in {"str", "record"}) =>
                 /\ warnings' = warnings + 1
                 /\ result'.kind = "str" => result'.str = self.fallback
                 /\ result'.kind = "record" =>
                        result'.rec = FixedFallbackRecord
          /\ cands' # <<>> =>
                 /\ warnings' = warnings
                 /\ result'.kind = "record" => result'.rec \in Elems(cands')
                 /\ result'.kind = "str" =>
                        \E r \in Elems(cands') : result'.str = r.useragent
    ]_vars

C13_Witness ==
    /\ Looked /\ calls = 2 /\ warnings = 1
    /\ result.kind = "record"
    /\ cands = <<>>

\* the values a call of entry with key k returns when nothing else runs
AloneResults(entry, k) ==
    LET built == FakeUserAgentInit(args, resource).self
    IN  IF entry = "getBrowser"
        THEN IF BrowserCandidates(built, k) = <<>>
             THEN { ReturnRecord(FallbackRecord(built)) }
             ELSE { ReturnRecord(c) : c \in Elems(BrowserCandidates(built, k)) }
        ELSE IF AttrCandidates(built, k) = <<>>
             THEN { ReturnStr(built.fallback) }
             ELSE { ReturnStr(c.useragent) :
                        c \in Elems(AttrCandidates(built, k)) }

\* C14: while any number of lookups run interleaved, the configuration and
\* the catalog stay what construction made them, and every finished lookup
\* has returned a value that the same call returns when it runs alone.
C14_PureReads ==
    phase = "ready" =>
        /\ self = FakeUserAgentInit(args, resource).self
        /\ \A t \in Threads :
               threads[t].pc = "done" =>
                   threads[t].ret \in AloneResults(threads[t].entry,
                                                   threads[t].key)

C14_Witness ==
    /\ phase = "ready"
    /\ \E t, u \in Threads :
           /\ threads[t].pc = "done" /\ threads[t].ret.kind = "record"
           /\ threads[t].filtered # <<>>
           /\ threads[u].pc = "done" /\ threads[u].ret.kind = "str"
           /\ threads[u].filtered = <<>>
    /\ warnings = 1

EmptyKeys == { <<>>, <<" ","_">> }

\* C17: a lookup whose key is empty or made of spaces and underscores only
\* computes the candidates of "random", which are the records passing the
\* configuration filters whatever their browser; it returns one of them, and
\* the fallback only when no record passes.
C17_EmptyKey ==
    (Looked /\ ~Exempt /\ key \in EmptyKeys) =>
        /\ cands = CandidatesFor(RANDOM)
        /\ Elems(cands) = Admitted
        /\ result.kind = "str" =>
               IF Admitted = {} THEN result.str = self.fallback
               ELSE \E r \in Admitted : result.str = r.useragent
        /\ result.kind = "record" =>
               IF Admitted = {} THEN result.rec = FixedFallbackRecord
               ELSE result.rec \in Admitted

C17_Witness ==
    /\ Looked /\ ~Exempt /\ key = <<" ","_">>
    /\ result.kind = "str"
    /\ Len(cands) > 1
    /\ Len(cands) < Len(self.data_browsers)
    /\ \E i, j \in DOMAIN cands : cands[i].browser # cands[j].browser

AllStr(S) == \A v \in S : v.t = "str"

\* the list construction stores for an argument that is None, a string or a
\* list of strings
StoredList(arg, default) ==
    IF arg.t = "none" THEN default
    ELSE IF arg.t = "str" THEN <<arg>>
    ELSE arg.l

\* C15: a constructed selector holds lists of strings in browsers, os and
\* platforms (a single string stored as a one-element list, None as the
\* default list) and a set of strings in safe_attrs; a constructor call with
\* an entry that is not a string in browsers, os or platforms does not
\* produce a selector.
C15_ConfigInvariant ==
    /\ phase = "ready" =>
           /\ AllStr(Elems(self.browsers))
           /\ AllStr(Elems(self.os))
           /\ AllStr(Elems(self.platforms))
           /\ AllStr(self.safe_attrs)
           /\ self.browsers = StoredList(args.browsers, DefaultBrowsers)
           /\ self.platforms = StoredList(args.platforms, DefaultPlatforms)
    /\ (phase # "new"
        /\ \E f \in {"browsers", "os", "platforms"} :
               args[f].t = "list" /\ ~AllStr(Elems(args[f].l)))
           => phase = "failed"

AllJson(lines) == \A i \in DOMAIN lines : IsJson(lines[i])

\* the lines load() ends up with: those of the first strategy when it read
\* and parsed them all, else those of the second when it did, else none
LoadedLines ==
    IF resource.ilr /\ AllJson(resource.lines) THEN resource.lines
    ELSE IF resource.pkg /\ AllJson(resource.pkg_lines) THEN resource.pkg_lines
    ELSE <<>>

\* C16: a construction that reached load() either holds a non-empty catalog
\* with exactly one record per line of the file, in line order, or has failed
\* with FakeUserAgentError; the catalog is never empty, never a part of the
\* lines and never the records of two attempts together.
C16_LoadAllOrNothing ==
    (phase # "new" /\ loads = 1) =>
        IF LoadedLines # <<>>
        THEN /\ phase = "ready"
             /\ self.data_browsers # <<>>
             /\ Len(self.data_browsers) = Len(LoadedLines)
             /\ \A i \in DOMAIN LoadedLines :
                    self.data_browsers[i] = JsonLoads(LoadedLines[i])
        ELSE /\ phase = "failed"
             /\ error.type = "FakeUserAgentError"
             /\ self.data_browsers = <<>>

C16_Witness ==
    /\ phase = "ready" /\ loads = 1
    /\ resource.ilr /\ Len(resource.lines) = 2
    /\ IsJson(resource.lines[1]) /\ ~IsJson(resource.lines[2])
    /\ Len(self.data_browsers) = MaxLines
    /\ self.data_browsers[1] = JsonLoads(resource.lines[1])

====
